---- MODULE Spec2Model ----
(***************************************************************************)
(* Habitat Designer: the geometry calculator and the rule evaluator of     *)
(* src/src/HabitatDesigner.jsx, the React shell that re-renders them after *)
(* every edit, and the volume expression of the second designer component  *)
(* (src/unnamed/part_000).                                                 *)
(*                                                                         *)
(* Numbers.  A JavaScript number is modelled exactly as (p*pi + q)/d with  *)
(* integers p, q and d > 0 in lowest terms, so that Math.PI stays symbolic *)
(* and 0.5, 2.5, w/2 and 4/3 are exact.  Inputs are integers.              *)
(***************************************************************************)
EXTENDS Integers, Sequences, FiniteSets, TLC

\* ------------------------------------------------------------------ bounds
MaxSide == 6      \* engine: shape dimensions are drawn from 1..MaxSide
MaxLen == 2       \* engine: zone lists of length 0..MaxLen
MaxCrew == 2      \* engine: crew is drawn from 0..MaxCrew
MaxZones == 2     \* shell: addZone is explored while fewer zones than this

\* --------------------------------------------------------------- numbers
Abs(n) == IF n < 0 THEN -n ELSE n

RECURSIVE GCD(_, _)
GCD(a, b) == IF b = 0 THEN a ELSE GCD(b, a % b)

Norm(p, q, d) ==
    IF d = 1 THEN [p |-> p, q |-> q, d |-> d]
    ELSE LET g == GCD(GCD(Abs(p), Abs(q)), d)
         IN  [p |-> p \div g, q |-> q \div g, d |-> d \div g]

Num(n) == [p |-> 0, q |-> n, d |-> 1]
Frac(n, m) == Norm(0, n, m)
PI == [p |-> 1, q |-> 0, d |-> 1]

\* x * y, one of the factors free of pi (the code never multiplies pi by pi)
Mul(x, y) == Norm(x.p * y.q + x.q * y.p, x.q * y.q, x.d * y.d)

\* x / n for a positive integer literal n
DivBy(x, n) == Norm(x.p, x.q, x.d * n)

Add(x, y) == Norm(x.p * y.d + y.p * x.d, x.q * y.d + y.q * x.d, x.d * y.d)

\* 355/113 is the rational closest to pi with a denominator below 33102:
\* no integer lies between p*pi and p*355/113 for 0 < |p| < 113, so the
\* sign of p*pi + q is the sign of 355*p + 113*q in that range.
PiNum == 355
PiDen == 113

\* x < y: the sign of the numerator of x - y over the denominator x.d*y.d
Less(x, y) ==
    PiNum * (x.p * y.d - y.p * x.d) + PiDen * (x.q * y.d - y.q * x.d) < 0
Greater(x, y) == Less(y, x)

MathMax(a, b) == IF a >= b THEN a ELSE b

\* -------------------------------------------------------------- geometry
ShapeKinds == {"cylinder", "sphere", "ellipsoid", "box"}

presets ==
    [Cylinder   |-> [w |-> 6, h |-> 8, type |-> "cylinder"],
     Box        |-> [w |-> 4, h |-> 6, type |-> "box"],
     Sphere     |-> [w |-> 5, h |-> 5, type |-> "sphere"],
     Inflatable |-> [w |-> 8, h |-> 4, type |-> "ellipsoid"]]

computeVolumeMeters3(d) ==
    LET w == Num(d.w)
        h == Num(d.h)
    IN  IF d.type = "cylinder" THEN
            LET r == DivBy(w, 2) IN Mul(Mul(Mul(PI, r), r), h)
        ELSE IF d.type = "sphere" THEN
            LET r == DivBy(w, 2) IN Mul(Mul(Mul(Mul(Frac(4, 3), PI), r), r), r)
        ELSE IF d.type = "ellipsoid" THEN
            LET a == DivBy(w, 2)
                b == DivBy(w, 2)
                c == DivBy(h, 2)
            IN  Mul(Mul(Mul(Mul(Frac(4, 3), PI), a), b), c)
        ELSE IF d.type = "box" THEN
            Mul(Mul(w, h), Frac(5, 2))
        ELSE Num(0)

\* mutant: the ellipsoid's floor taken as its equatorial circle
computeFloorArea_equatorial(d) ==
    IF d.type = "box" THEN Mul(Num(d.w), Num(d.h))
    ELSE IF d.type \in {"cylinder", "sphere", "ellipsoid"}
    THEN Mul(Mul(PI, DivBy(Num(d.w), 2)), DivBy(Num(d.w), 2))
    ELSE Num(0)

computeFloorArea(d) ==
    IF d.type = "cylinder" THEN
        Mul(Mul(PI, DivBy(Num(d.w), 2)), DivBy(Num(d.w), 2))
    ELSE IF d.type = "sphere" THEN
        Mul(Mul(PI, DivBy(Num(d.w), 2)), DivBy(Num(d.w), 2))
    ELSE IF d.type = "ellipsoid" THEN
        Mul(Mul(PI, DivBy(Num(d.w), 2)), DivBy(Num(d.h), 2))
    ELSE IF d.type = "box" THEN
        Mul(Num(d.w), Num(d.h))
    ELSE Num(0)

\* the volume expression of the second designer component
P0_volume(shape, width, height) ==
    IF shape = "cylinder"
    THEN Mul(Mul(PI, Mul(DivBy(Num(width), 2), DivBy(Num(width), 2))), Num(height))
    ELSE Mul(Mul(Num(width), Num(width)), Num(height))

\* -------------------------------------------------------- rule evaluator
Absent == Num(0)

rules ==
    << [name |-> "Sleep",      min_per_crew |-> Num(4), min_per_crew_per_30days |-> Absent,     fixed_min |-> Absent],
       [name |-> "Recreation", min_per_crew |-> Num(2), min_per_crew_per_30days |-> Absent,     fixed_min |-> Absent],
       [name |-> "Exercise",   min_per_crew |-> Num(3), min_per_crew_per_30days |-> Absent,     fixed_min |-> Absent],
       [name |-> "Hygiene",    min_per_crew |-> Absent, min_per_crew_per_30days |-> Absent,     fixed_min |-> Num(3)],
       [name |-> "ECLSS",      min_per_crew |-> Absent, min_per_crew_per_30days |-> Absent,     fixed_min |-> Num(4)],
       [name |-> "Stowage",    min_per_crew |-> Absent, min_per_crew_per_30days |-> Frac(1, 2), fixed_min |-> Absent] >>

Truthy(x) == x # Num(0)

\* mutant: the first zone of a name is kept
RECURSIVE zoneMap_firstWins(_, _)
zoneMap_firstWins(zonesArr, n) ==
    IF n = 0 THEN <<>>
    ELSE LET m == zoneMap_firstWins(zonesArr, n - 1)
             z == zonesArr[n]
         IN  IF z.name \in DOMAIN m THEN m
             ELSE [k \in DOMAIN m \cup {z.name} |-> IF k = z.name THEN z ELSE m[k]]

\* zoneMap after the first n zones have been stored, later names overwriting
RECURSIVE zoneMap(_, _)
zoneMap(zonesArr, n) ==
    IF n = 0 THEN <<>>
    ELSE LET m == zoneMap(zonesArr, n - 1)
             z == zonesArr[n]
         IN  [k \in DOMAIN m \cup {z.name} |-> IF k = z.name THEN z ELSE m[k]]

requiredOf(v, c, m) ==
    LET r0 == Num(0)
        r1 == IF Truthy(v.min_per_crew) THEN Mul(v.min_per_crew, Num(c)) ELSE r0
        r2 == IF Truthy(v.min_per_crew_per_30days)
              THEN Mul(Mul(v.min_per_crew_per_30days, Num(c)), DivBy(Num(MathMax(1, m)), 30))
              ELSE r1
        r3 == IF Truthy(v.fixed_min) THEN v.fixed_min ELSE r2
    IN  r3

\* mutant: an area equal to the requirement fails
ruleResult_lessOrEqual(v, zm, c, m) ==
    IF v.name \notin DOMAIN zm
    THEN [ok |-> FALSE, msg |-> [text |-> "Missing zone", name |-> v.name]]
    ELSE LET z == zm[v.name]
             required == requiredOf(v, c, m)
         IN  IF ~Less(required, Num(z.area_m2))
             THEN [ok |-> FALSE, msg |-> [text |-> "TOO SMALL", name |-> v.name,
                                          actual |-> Num(z.area_m2), required |-> required]]
             ELSE [ok |-> TRUE, msg |-> [text |-> "OK", name |-> v.name,
                                         actual |-> Num(z.area_m2), required |-> required]]

\* the entry pushed for one rule; the figures of the message are kept as
\* numbers (actual, required), its wording as text
ruleResult(v, zm, c, m) ==
    IF v.name \notin DOMAIN zm
    THEN [ok |-> FALSE, msg |-> [text |-> "Missing zone", name |-> v.name]]
    ELSE LET z == zm[v.name]
             required == requiredOf(v, c, m)
         IN  IF Less(Num(z.area_m2), required)
             THEN [ok |-> FALSE, msg |-> [text |-> "TOO SMALL", name |-> v.name,
                                          actual |-> Num(z.area_m2), required |-> required]]
             ELSE [ok |-> TRUE, msg |-> [text |-> "OK", name |-> v.name,
                                         actual |-> Num(z.area_m2), required |-> required]]

\* mutant: the loop stops at the first missing zone
RECURSIVE rulesReport_abortOnMissing(_, _, _, _)
rulesReport_abortOnMissing(n, zm, c, m) ==
    IF n = 0 THEN <<>>
    ELSE LET prev == rulesReport_abortOnMissing(n - 1, zm, c, m)
         IN  IF Len(prev) < n - 1 \/ (n > 1 /\ prev[n - 1].msg.text = "Missing zone")
             THEN prev
             ELSE Append(prev, ruleResult(rules[n], zm, c, m))

RECURSIVE rulesReport(_, _, _, _)
rulesReport(n, zm, c, m) ==
    IF n = 0 THEN <<>>
    ELSE Append(rulesReport(n - 1, zm, c, m), ruleResult(rules[n], zm, c, m))

RECURSIVE totalArea(_, _)
totalArea(zonesArr, n) ==
    IF n = 0 THEN Num(0) ELSE Add(totalArea(zonesArr, n - 1), Num(zonesArr[n].area_m2))

\* mutant: a total equal to the floor area fails
floorResult_notLess(zonesArr, f) ==
    LET totalZonesArea == totalArea(zonesArr, Len(zonesArr))
    IN  IF ~Less(totalZonesArea, f)
        THEN [ok |-> FALSE, msg |-> [text |-> "TOTAL AREA EXCEEDS USABLE FLOOR AREA",
                                     actual |-> totalZonesArea, required |-> f]]
        ELSE [ok |-> TRUE, msg |-> [text |-> "Total zones within floor area",
                                    actual |-> totalZonesArea, required |-> f]]

floorResult(zonesArr, f) ==
    LET totalZonesArea == totalArea(zonesArr, Len(zonesArr))
    IN  IF Greater(totalZonesArea, f)
        THEN [ok |-> FALSE, msg |-> [text |-> "TOTAL AREA EXCEEDS USABLE FLOOR AREA",
                                     actual |-> totalZonesArea, required |-> f]]
        ELSE [ok |-> TRUE, msg |-> [text |-> "Total zones within floor area",
                                    actual |-> totalZonesArea, required |-> f]]

\* mutant: no aggregate entry for an empty zone list
evaluateZones_emptyShort(zonesArr, c, m, f) ==
    LET zm == zoneMap(zonesArr, Len(zonesArr))
    IN  IF Len(zonesArr) = 0
        THEN rulesReport(Len(rules), zm, c, m)
        ELSE Append(rulesReport(Len(rules), zm, c, m), floorResult(zonesArr, f))

evaluateZones(zonesArr, c, m, f) ==
    LET zm == zoneMap(zonesArr, Len(zonesArr))
    IN  Append(rulesReport(Len(rules), zm, c, m), floorResult(zonesArr, f))

\* ----------------------------------------------------------------- state
VARIABLES
    phase,        \* "rendered" in the shell; the engine's call position
    shapeName,    \* useState('Cylinder')
    dimensions,   \* useState(presets['Cylinder'])
    crew,         \* useState(4)
    missionDays,  \* useState(180)
    zones,        \* useState([...])
    volume,       \* useMemo value on display
    floorArea,    \* useMemo value on display
    evaluation,   \* useMemo value on display
    error         \* the error thrown by the last engine call, "none" if none

vars == <<phase, shapeName, dimensions, crew, missionDays, zones,
          volume, floorArea, evaluation, error>>

InitialZones ==
    << [id |-> 1, name |-> "Sleep", area_m2 |-> 6],
       [id |-> 2, name |-> "Hab",   area_m2 |-> 8],
       [id |-> 3, name |-> "ECLSS", area_m2 |-> 4] >>

\* Date.now() reads the wall clock in whole milliseconds since 1970: far
\* above the literal ids, equal for two calls within one millisecond, and
\* not monotonic (the clock can be set back)
ClockStart == Len(InitialZones) + 1
ClockReadings == {ClockStart, ClockStart + 1}

CrewMin == 1
CrewMax == 12

\* the values typed or dragged into the inputs of the shell
CrewInputs == {c \in {1} : CrewMin <= c /\ c <= CrewMax}
DimInputs == {1}
DayInputs == {0}
NameInputs == {"Stowage"}
AreaInputs == {0}

\* ----------------------------------------------------- shell (React state)
\* useMemo recomputes when a dependency differs from the previous render's:
\* numbers by value, objects and arrays by reference (every setDimensions
\* and setZones call of the component stores a fresh object).
volumeStale(dimsChanged) == dimsChanged
floorAreaStale(dimsChanged) == dimsChanged
\* mutant: crew left out of the dependency list
evaluationStale_noCrew(zonesChanged, crewChanged, daysChanged, dimsChanged) ==
    zonesChanged \/ daysChanged \/ dimsChanged

evaluationStale(zonesChanged, crewChanged, daysChanged, dimsChanged) ==
    zonesChanged \/ crewChanged \/ daysChanged \/ dimsChanged

\* one render of the component after a state update
Render(dimsChanged, zonesChanged) ==
    /\ volume' = IF volumeStale(dimsChanged)
                 THEN computeVolumeMeters3(dimensions') ELSE volume
    /\ floorArea' = IF floorAreaStale(dimsChanged)
                    THEN computeFloorArea(dimensions') ELSE floorArea
    /\ evaluation' = IF evaluationStale(zonesChanged, crew' # crew,
                                        missionDays' # missionDays, dimsChanged)
                     THEN evaluateZones(zones', crew', missionDays', floorArea')
                     ELSE evaluation
    /\ error' = "none"
    /\ phase' = "rendered"

Init ==
    /\ phase = "rendered"
    /\ shapeName = "Cylinder"
    /\ dimensions = presets["Cylinder"]
    /\ crew = 4
    /\ missionDays = 180
    /\ zones = InitialZones
    /\ volume = computeVolumeMeters3(dimensions)
    /\ floorArea = computeFloorArea(dimensions)
    /\ evaluation = evaluateZones(zones, crew, missionDays, floorArea)
    /\ error = "none"

SelectPreset(name) ==
    /\ name # shapeName
    /\ shapeName' = name
    /\ dimensions' = presets[name]
    /\ UNCHANGED <<crew, missionDays, zones>>
    /\ Render(TRUE, FALSE)

SetW(v) ==
    /\ dimensions' = [dimensions EXCEPT !.w = v]
    /\ UNCHANGED <<shapeName, crew, missionDays, zones>>
    /\ Render(TRUE, FALSE)

SetH(v) ==
    /\ dimensions' = [dimensions EXCEPT !.h = v]
    /\ UNCHANGED <<shapeName, crew, missionDays, zones>>
    /\ Render(TRUE, FALSE)

SetCrew(v) ==
    /\ crew' = v
    /\ UNCHANGED <<shapeName, dimensions, missionDays, zones>>
    /\ Render(FALSE, FALSE)

SetMissionDays(v) ==
    /\ missionDays' = v
    /\ UNCHANGED <<shapeName, dimensions, crew, zones>>
    /\ Render(FALSE, FALSE)

addZone(t) ==
    /\ Len(zones) < MaxZones
    /\ LET next == [id |-> t, name |-> "New", area_m2 |-> 2]
       IN  zones' = Append(zones, next)
    /\ UNCHANGED <<shapeName, dimensions, crew, missionDays>>
    /\ Render(FALSE, TRUE)

updateZone(id, patch) ==
    /\ zones' = [i \in 1..Len(zones) |->
                    IF zones[i].id = id
                    THEN [f \in DOMAIN zones[i] |->
                             IF f \in DOMAIN patch THEN patch[f] ELSE zones[i][f]]
                    ELSE zones[i]]
    /\ UNCHANGED <<shapeName, dimensions, crew, missionDays>>
    /\ Render(FALSE, TRUE)

removeZone(id) ==
    /\ zones' = SelectSeq(zones, LAMBDA x : x.id # id)
    /\ UNCHANGED <<shapeName, dimensions, crew, missionDays>>
    /\ Render(FALSE, TRUE)

ZoneIds == {zones[i].id : i \in 1..Len(zones)}

Next ==
    \/ \E name \in DOMAIN presets : SelectPreset(name)
    \/ \E v \in DimInputs : SetW(v)
    \/ \E v \in DimInputs : SetH(v)
    \/ \E v \in CrewInputs : SetCrew(v)
    \/ \E v \in DayInputs : SetMissionDays(v)
    \/ \E t \in ClockReadings : addZone(t)
    \/ \E id \in ZoneIds, s \in NameInputs : updateZone(id, [name |-> s])
    \/ \E id \in ZoneIds, a \in AreaInputs : updateZone(id, [area_m2 |-> a])
    \/ \E id \in ZoneIds : removeZone(id)

Spec == Init /\ [][Next]_vars

\* ------------------------------------------- engine (the functions alone)
\* The three functions applied to inputs drawn from bounded sets, the shape
\* kinds including two that no preset carries.
EngineKinds == ShapeKinds \cup {"torus", "cube"}
EngineShapes == [type : EngineKinds, w : 1..MaxSide, h : 1..MaxSide]
EngineNames == {"Sleep", "ECLSS", "Stowage", "Hab"}
EngineAreas == {0, 1, 4, 15}
EngineDays == {0, 30, 60}
EngineFloors == {Num(0), Num(4), Num(8), PI, Mul(PI, Num(9))}
EngineZones ==
    UNION {{[i \in 1..n |-> [id |-> i, name |-> f[i][1], area_m2 |-> f[i][2]]] :
               f \in [1..n -> EngineNames \X EngineAreas]} : n \in 0..MaxLen}

InitGeometry ==
    /\ phase = "geometryInput"
    /\ dimensions \in EngineShapes
    /\ zones = <<>>
    /\ crew = 1
    /\ missionDays = 1
    /\ floorArea = Num(0)

InitEvaluate ==
    /\ phase = "evaluateInput"
    /\ dimensions = presets["Cylinder"]
    /\ zones \in EngineZones
    /\ crew \in 0..MaxCrew
    /\ missionDays \in EngineDays
    /\ floorArea \in EngineFloors

InitEngine ==
    /\ shapeName = "Cylinder"
    /\ volume = Num(0)
    /\ evaluation = <<>>
    /\ error = "none"
    /\ (InitGeometry \/ InitEvaluate)

CallComputeVolume ==
    /\ phase = "geometryInput"
    /\ volume' = computeVolumeMeters3(dimensions)
    /\ error' = "none"
    /\ phase' = "volume"
    /\ UNCHANGED <<shapeName, dimensions, crew, missionDays, zones, floorArea, evaluation>>

CallComputeFloorArea ==
    /\ phase = "volume"
    /\ floorArea' = computeFloorArea(dimensions)
    /\ error' = "none"
    /\ phase' = "geometry"
    /\ UNCHANGED <<shapeName, dimensions, crew, missionDays, zones, volume, evaluation>>

CallP0Volume ==
    /\ phase = "geometryInput"
    /\ volume' = P0_volume(dimensions.type, dimensions.w, dimensions.h)
    /\ error' = "none"
    /\ phase' = "p0volume"
    /\ UNCHANGED <<shapeName, dimensions, crew, missionDays, zones, floorArea, evaluation>>

CallEvaluateZones ==
    /\ phase = "evaluateInput"
    /\ evaluation' = evaluateZones(zones, crew, missionDays, floorArea)
    /\ error' = "none"
    /\ phase' = "evaluated"
    /\ UNCHANGED <<shapeName, dimensions, crew, missionDays, zones, volume, floorArea>>

NextEngine ==
    \/ CallComputeVolume
    \/ CallComputeFloorArea
    \/ CallP0Volume
    \/ CallEvaluateZones

SpecEngine == InitEngine /\ [][NextEngine]_vars

\* the report on display or returned is that of the zones, crew, missionDays
\* and floorArea of the state
Evaluated == phase \in {"rendered", "evaluated"}

\* ------------------------------------------------------------ properties
\* The rule table as the specification states it: order, form and rate
\* (the rate as num/den).
RuleNames == <<"Sleep", "Recreation", "Exercise", "Hygiene", "ECLSS", "Stowage">>
RuleTexts == {"Missing zone", "TOO SMALL", "OK"}
AggregateTexts == {"TOTAL AREA EXCEEDS USABLE FLOOR AREA", "Total zones within floor area"}
NamesPresent == {zones[i].name : i \in 1..Len(zones)}
LastWith(k) == CHOOSE i \in 1..Len(zones) :
                  /\ zones[i].name = k
                  /\ \A j \in (i + 1)..Len(zones) : zones[j].name # k

\* C1: the report has one entry per rule of the table, in table order
\* (Sleep, Recreation, Exercise, Hygiene, ECLSS, Stowage), then exactly one
\* aggregate entry, which is last: 7 entries for every input.
C1_ReportShape ==
    Evaluated =>
        /\ Len(evaluation) = Len(RuleNames) + 1
        /\ Len(evaluation) = 7
        /\ \A i \in 1..Len(RuleNames) :
              /\ evaluation[i].msg.text \in RuleTexts
              /\ evaluation[i].msg.name = RuleNames[i]
        /\ evaluation[Len(evaluation)].msg.text \in AggregateTexts

\* C1 witness: a report for a list with a duplicate, unknown name
C1_Witness ==
    /\ phase = "evaluated"
    /\ Len(zones) = 2
    /\ zones[1].name = "Hab"
    /\ zones[2].name = "Hab"
    /\ Len(evaluation) = 7

\* the required area of rule k as the specification states it, num/den
ClaimedRequired(k) ==
    CASE k = "Sleep"      -> [num |-> 4 * crew, den |-> 1]
      [] k = "Recreation" -> [num |-> 2 * crew, den |-> 1]
      [] k = "Exercise"   -> [num |-> 3 * crew, den |-> 1]
      [] k = "Hygiene"    -> [num |-> 3, den |-> 1]
      [] k = "ECLSS"      -> [num |-> 4, den |-> 1]
      [] k = "Stowage"    -> [num |-> crew * (IF missionDays > 1 THEN missionDays ELSE 1),
                              den |-> 60]

\* C2: for a rule whose zone is present, required is rate*crew (perCrew),
\* rate*crew*max(1,missionDays)/30 (perCrewPer30Days) or the fixed value,
\* and the entry is ok:false exactly when the area is strictly less than
\* required (an area equal to required passes).
C2_RequiredAndVerdict ==
    Evaluated =>
        \A i \in 1..Len(RuleNames) :
            RuleNames[i] \in NamesPresent =>
                LET e == evaluation[i]
                    r == ClaimedRequired(RuleNames[i])
                IN  /\ e.msg.text \in {"TOO SMALL", "OK"}
                    /\ e.msg.required.p = 0
                    /\ e.msg.required.q * r.den = r.num * e.msg.required.d
                    /\ e.msg.actual.p = 0
                    /\ e.msg.actual.d = 1
                    /\ \E j \in 1..Len(zones) :
                          zones[j].name = RuleNames[i] /\ zones[j].area_m2 = e.msg.actual.q
                    /\ e.ok = ~(e.msg.actual.q * r.den < r.num)
                    /\ e.ok = (e.msg.text = "OK")

\* C2 witness: ECLSS of area 4 passes its fixed minimum 4 while a Sleep
\* zone smaller than 4 per crew member fails
C2_Witness ==
    /\ phase = "evaluated"
    /\ crew = 1
    /\ \E i \in 1..Len(zones) : zones[i].name = "ECLSS" /\ zones[i].area_m2 = 4
    /\ \E i \in 1..Len(zones) : zones[i].name = "Sleep" /\ zones[i].area_m2 = 1
    /\ evaluation[5].ok
    /\ ~evaluation[1].ok
    /\ evaluation[1].msg.required = Num(4)

\* C3: a rule whose name no zone carries gets exactly one entry, ok:false
\* with the message "Missing zone: <name>"; the other rules are still
\* evaluated and the aggregate entry is still produced.
C3_MissingZone ==
    Evaluated =>
        /\ Len(evaluation) = Len(RuleNames) + 1
        /\ \A i \in 1..Len(RuleNames) :
              IF RuleNames[i] \in NamesPresent
              THEN evaluation[i].msg.text \in {"TOO SMALL", "OK"}
              ELSE evaluation[i] = [ok |-> FALSE,
                                    msg |-> [text |-> "Missing zone", name |-> RuleNames[i]]]
        /\ evaluation[Len(RuleNames) + 1].msg.text \in AggregateTexts
        /\ error = "none"

\* C3 witness: Sleep, the first rule, is missing and ECLSS, a later rule,
\* is evaluated all the same
C3_Witness ==
    /\ phase = "evaluated"
    /\ "Sleep" \notin NamesPresent
    /\ "ECLSS" \in NamesPresent
    /\ evaluation[1].msg.text = "Missing zone"
    /\ evaluation[5].msg.text = "OK"
    /\ evaluation[7].msg.text \in AggregateTexts

RECURSIVE SumAreas(_)
SumAreas(S) == IF S = {} THEN 0
               ELSE LET i == CHOOSE j \in S : TRUE
                    IN  zones[i].area_m2 + SumAreas(S \ {i})

\* C4: the aggregate entry compares the sum of the areas of all zones of the
\* list (unmatched and shadowed ones included) with floorArea: ok:false
\* exactly when the sum strictly exceeds floorArea.  With floorArea =
\* (p*pi + q)/d and 333/106 < pi < 22/7, and X = d*sum - q: X > 22p/7 is
\* enough for a failure and X > 333p/106 is needed for one; no input of the
\* model falls between the two.
C4_Aggregate ==
    Evaluated =>
        LET X == floorArea.d * SumAreas(1..Len(zones)) - floorArea.q
            p == floorArea.p
            last == evaluation[Len(evaluation)]
        IN  /\ p >= 0
            /\ ~(106 * X > 333 * p /\ 7 * X <= 22 * p)
            /\ (7 * X > 22 * p) => ~last.ok
            /\ ~last.ok => (106 * X > 333 * p)
            /\ last.ok = (last.msg.text = "Total zones within floor area")

\* C4 witness: zones totalling 30, one of them matching no rule, against
\* the floor area 9*pi (about 28.27) of the cylinder of diameter 6
C4_Witness ==
    /\ phase = "evaluated"
    /\ floorArea = [p |-> 9, q |-> 0, d |-> 1]
    /\ Len(zones) = 2
    /\ zones[1].name = "Hab"
    /\ SumAreas(1..Len(zones)) = 30
    /\ ~evaluation[7].ok

\* C5: a rule is evaluated against the last zone of the list that carries
\* its name; earlier zones of that name do not influence its entry.
C5_LastWins ==
    Evaluated =>
        \A i \in 1..Len(RuleNames) :
            RuleNames[i] \in NamesPresent =>
                evaluation[i].msg.actual = Num(zones[LastWith(RuleNames[i])].area_m2)

\* C5 witness: two Sleep zones of different areas, the first passing and
\* the last failing
C5_Witness ==
    /\ phase = "evaluated"
    /\ Len(zones) = 2
    /\ zones[1].name = "Sleep"
    /\ zones[2].name = "Sleep"
    /\ zones[1].area_m2 = 15
    /\ zones[2].area_m2 = 1
    /\ crew = 1
    /\ ~evaluation[1].ok

\* C6: with crewSize <= 0 or missionDays <= 0 the evaluation fails with
\* InvalidMissionContext, for every value the inputs of the shell can store.
C6_RejectsInvalidContext ==
    (Evaluated /\ (crew <= 0 \/ missionDays <= 0)) => error = "InvalidMissionContext"

\* C7: a shape kind outside cylinder, sphere, ellipsoid and box makes the
\* geometry functions fail with InvalidShapeKind.
C7_RejectsUnknownKind ==
    (phase \in {"volume", "geometry", "p0volume"} /\ dimensions.type \notin ShapeKinds)
        => error = "InvalidShapeKind"

\* C8: the geometry follows the per-kind formulas (pi symbolic):
\* box: floorArea = w*h, volume = 2.5*w*h; cylinder: floorArea = pi*(w/2)^2,
\* volume = floorArea*h; sphere: floorArea = pi*(w/2)^2, volume =
\* (4/3)*pi*(w/2)^3; ellipsoid: floorArea = pi*(w/2)*(h/2), volume =
\* (4/3)*pi*(w/2)^2*(h/2).  Stated for (p*pi + q)/d by cross-multiplication.
C8_Formulas ==
    (phase = "geometry" /\ dimensions.type \in ShapeKinds) =>
        LET w == dimensions.w
            h == dimensions.h
            k == dimensions.type
            A == floorArea
            V == volume
        IN  /\ A.d > 0 /\ V.d > 0
            /\ k = "box" =>
                  /\ A.p = 0 /\ A.q = w * h * A.d
                  /\ V.p = 0 /\ 2 * V.q = 5 * w * h * V.d
            /\ k = "cylinder" =>
                  /\ A.q = 0 /\ 4 * A.p = w * w * A.d
                  /\ V.q = 0 /\ 4 * V.p = w * w * h * V.d
            /\ k = "sphere" =>
                  /\ A.q = 0 /\ 4 * A.p = w * w * A.d
                  /\ V.q = 0 /\ 6 * V.p = w * w * w * V.d
            /\ k = "ellipsoid" =>
                  /\ A.q = 0 /\ 4 * A.p = w * h * A.d
                  /\ V.q = 0 /\ 6 * V.p = w * w * h * V.d

\* C8 witness: the box of 4 by 6 has floor area 24 and volume 60
C8_Witness ==
    /\ phase = "geometry"
    /\ dimensions = [type |-> "box", w |-> 4, h |-> 6]
    /\ floorArea = Num(24)
    /\ volume = Num(60)

\* C9: after any sequence of shell edits the volume, floor area and report
\* on display are those of the current model; no edit leaves a memoized
\* value of an earlier model on display.
C9_DisplayFresh ==
    phase = "rendered" =>
        /\ volume = computeVolumeMeters3(dimensions)
        /\ floorArea = computeFloorArea(dimensions)
        /\ evaluation = evaluateZones(zones, crew, missionDays, floorArea)

\* C9 witness: preset, dimension, crew, mission days and zones have all
\* been edited and the report shows the edited model
C9_Witness ==
    /\ phase = "rendered"
    /\ shapeName = "Box"
    /\ dimensions.h = 1
    /\ crew = 1
    /\ missionDays = 0
    /\ Len(zones) = 2
    /\ zones[2].name = "Stowage"
    /\ evaluation[1].msg.required = Num(4)
    /\ evaluation[6].msg.text = "OK"
    /\ floorArea = Num(4)

\* C10: the zones of the list have pairwise different ids after any
\* sequence of addZone, updateZone and removeZone.
C10_UniqueIds ==
    \A i, j \in 1..Len(zones) : i # j => zones[i].id # zones[j].id

====
